---- MODULE Spec2Model ----
(***************************************************************************)
(* The global resource manager of the scheduler                            *)
(* (snapfaas/src/sched/resource_manager.rs) and the worker's request       *)
(* handling (snapfaas/src/worker.rs).                                      *)
(***************************************************************************)
EXTENDS Integers, Sequences, FiniteSets, TLC

\* ------------------------------------------------------------- bounds
MaxPorts == 2
MaxCached == 2
MaxMem == 1
MaxTasks == 2
MaxEvents == 1
MaxGets == 2

Nodes == {"A", "B"}
Functions == {"hello", "world"}
Ports == 1..MaxPorts
MemVals == 0..MaxMem

\* SocketAddr of a worker connection; Node(addr.ip) is its node
Addrs == [ip : Nodes, port : Ports]

\* Option<Worker>
None == <<>>
Some(w) == <<w>>

VARIABLES
    info,       \* ResourceManager.info   : Node -> NodeInfo
    cached,     \* ResourceManager.cached : function -> Vec<(Node, usize)>
    idle,       \* ResourceManager.idle   : Node -> Vec<Worker>
    ret,        \* what the last find_idle returned
    panicked,   \* an unwrap() on a missing registry entry was hit
    last,       \* the operation that produced this state
    hpc,        \* handle_request: where the worker thread is
    hreq,       \* handle_request: req.gate.image
    hi,         \* handle_request: the attempt counter i
    hvm,        \* handle_request: the VM held, with its is_launched()
    hmsgs,      \* handle_request: messages sent on vm_req_sender
    herrs,      \* handle_request: the calls of handle_vm_error
    hstatus,    \* handle_request: the RequestStatus returned
    wst,        \* worker loop: where each worker thread is
    wtask,      \* worker loop: req_id of the task a worker holds
    tfn,        \* the function image of each admitted task
    tdisp,      \* the worker each task was dispatched to
    wait_list,  \* ResourceManager.wait_list: task ids awaiting a result
    pending,    \* invocations parked for want of an idle worker
    answers,    \* what each caller has received
    shutdown,   \* TerminateAll has been issued
    nevents,    \* UpdateResource and DropResource messages handled so far
    wlog,       \* worker loop: the calls and replies on its scheduler stream
    hlabel,     \* the worker thread's current label (fs::utils)
    hpriv,      \* the worker thread's current privilege (fs::utils)
    hsec,       \* handle_request: req.label.secrecy
    hgate       \* handle_request: req.gate.privilege

rmvars == <<info, cached, idle, ret, panicked, last>>
hvars == <<hpc, hreq, hi, hvm, hmsgs, herrs, hstatus>>
tvars == <<wlog, hlabel, hpriv, hsec, hgate>>
svars ==
    <<wst, wtask, tfn, tdisp, wait_list, pending, answers, shutdown, nevents,
      tvars>>
vars == <<rmvars, hvars, svars>>

\* ------------------------------------------------------------- helpers
EmptyMap == [x \in {} |-> 0]

Restrict(m, S) == [x \in S |-> m[x]]

MapPut(m, k, v) == [x \in DOMAIN m \cup {k} |-> IF x = k THEN v ELSE m[x]]

RECURSIVE IndexFrom(_, _, _)
\* first index i >= from of v with Test[i], 0 when there is none
IndexFrom(tests, from, len) ==
    IF from > len THEN 0
    ELSE IF tests[from] THEN from
    ELSE IndexFrom(tests, from + 1, len)

\* a removal that always drops the last element, whatever pos is
SwapRemoveLast(v, pos) == SubSeq(v, 1, Len(v) - 1)

\* Vec::swap_remove: the last element takes the removed one's place
SwapRemove(v, pos) ==
    LET n == Len(v) IN
    IF pos = n THEN SubSeq(v, 1, n - 1)
    ELSE [i \in 1..(n - 1) |-> IF i = pos THEN v[n] ELSE v[i]]

\* Vec::pop leaves everything but the last element
PopRest(v) == SubSeq(v, 1, Len(v) - 1)

\* the idle pool left as it is, emptied lists included
IdleRetainNoop(idl) == idl

\* self.idle.retain(|_, v| !v.is_empty())
IdleRetain(idl) == Restrict(idl, {n \in DOMAIN idl : idl[n] # <<>>})

\* ------------------------------------------------------------- NodeInfo
NodeInfoNew(n) ==
    [node |-> n, dirty |-> FALSE, total_mem |-> 0, free_mem |-> 0]

\* try_add_node inserting a fresh NodeInfo whether or not the node is known
TryAddNodeOverwrite(inf, n) == MapPut(inf, n, NodeInfoNew(n))

\* try_add_node: the registry afterwards
TryAddNode(inf, n) ==
    IF n \in DOMAIN inf THEN inf ELSE MapPut(inf, n, NodeInfoNew(n))

\* try_add_node: its return value, !has_node
TryAddNodeSuccess(inf, n) == n \notin DOMAIN inf

\* ------------------------------------------------------------- add_idle
AddIdlePool(idl, addr) ==
    LET node == addr.ip
        worker == [addr |-> addr]
    IN  IF node \in DOMAIN idl
        THEN [idl EXCEPT ![node] = Append(@, worker)]
        ELSE MapPut(idl, node, <<worker>>)

add_idle(addr) ==
    /\ info' = TryAddNode(info, addr.ip)
    /\ idle' = AddIdlePool(idle, addr)
    /\ UNCHANGED <<cached, ret, panicked>>
    /\ last' = [op |-> "add_idle", node |-> addr.ip, fn |-> "-", path |-> "-"]

\* ------------------------------------------------------------- find_idle
\* The closure given to find: info.get(&n.0).unwrap() stops the scan with a
\* panic on a node the registry lacks, !i.dirty() stops it with a match.
ScanStops(v, inf) ==
    [i \in 1..Len(v) |-> v[i][1] \notin DOMAIN inf \/ ~inf[v[i][1]].dirty]

\* the first entry taken whatever its node's dirty flag
FirstSafeAny(v, inf) == IF Len(v) > 0 THEN 1 ELSE 0

\* index of the first safe (not dirty) entry of v, 0 when there is none
FirstSafe(v, inf) == IndexFrom(ScanStops(v, inf), 1, Len(v))

\* the scan of step 1 hits an unwrap() on a node the registry does not hold,
\* or n.1 -= 1 underflows on a stored count of 0
Step1Panics(v, inf) ==
    LET k == FirstSafe(v, inf) IN
    k > 0 /\ (v[k][1] \notin DOMAIN inf \/ v[k][2] = 0)

\* the decrement applied to every entry of the list, not only the one found
DecrementEveryEntry(v, k) ==
    LET dec == IF k = 0 THEN v
               ELSE [i \in 1..Len(v) |-> <<v[i][1], v[i][2] - 1>>]
    IN  SelectSeq(dec, LAMBDA n : n[2] # 0)

\* n.1 -= 1 on the entry found, then v.retain(|n| n.1 != 0)
DecrementAndRetain(v, k) ==
    LET dec == IF k = 0 THEN v
               ELSE [i \in 1..Len(v) |->
                        IF i = k THEN <<v[i][1], v[i][2] - 1>> ELSE v[i]]
    IN  SelectSeq(dec, LAMBDA n : n[2] # 0)

\* the worker registered first taken instead of the last
PopWorkerFront(idl, n) ==
    IF n \in DOMAIN idl /\ idl[n] # <<>>
    THEN Some(idl[n][1])
    ELSE None

\* idle.get_mut(&n).and_then(|v| v.pop())
PopWorker(idl, n) ==
    IF n \in DOMAIN idl /\ idl[n] # <<>>
    THEN Some(idl[n][Len(idl[n])])
    ELSE None

\* the worker handed out is left in the pool
PopIdleKeep(idl, n) == IdleRetain(idl)

\* the idle pool after that pop and self.idle.retain(|_, v| !v.is_empty())
PopIdle(idl, n) ==
    IF n \in DOMAIN idl /\ idl[n] # <<>>
    THEN IdleRetain([idl EXCEPT ![n] = PopRest(@)])
    ELSE IdleRetain(idl)

\* the fallback forgetting set_dirty(true)
MarkDirtyNoop(inf, n) == inf

\* set_dirty(true) on the node of the worker the fallback took
MarkDirty(inf, n) == [inf EXCEPT ![n].dirty = TRUE]

FindIdleCached(inf, cch, idl, function, k) ==
    LET v == cch[function]
        n == v[k][1]
    IN  /\ cached' = [cch EXCEPT ![function] = DecrementAndRetain(v, k)]
        /\ ret' = PopWorker(idl, n)
        /\ idle' = PopIdle(idl, n)
        /\ info' = inf
        /\ UNCHANGED panicked
        /\ last' = [op |-> "find_idle", node |-> n, fn |-> function,
                    path |-> "cached"]

\* self.idle.values_mut().next(): the map's first value, in an iteration
\* order the program does not control
FindIdleFallback(inf, cch, idl, function) ==
    /\ cached' = IF function \in DOMAIN cch
                 THEN [cch EXCEPT ![function] = DecrementAndRetain(@, 0)]
                 ELSE cch
    /\ IF DOMAIN idl = {}
       THEN /\ ret' = None
            /\ idle' = idl
            /\ info' = inf
            /\ UNCHANGED panicked
            /\ last' = [op |-> "find_idle", node |-> "-", fn |-> function,
                        path |-> "fallback"]
       ELSE \E n \in DOMAIN idl :
            LET worker == PopWorker(idl, n) IN
            /\ ret' = worker
            /\ idle' = PopIdle(idl, n)
            /\ IF worker = None
               THEN info' = inf /\ UNCHANGED panicked
               ELSE LET node == worker[1].addr.ip IN
                    IF node \in DOMAIN inf
                    THEN info' = MarkDirty(inf, node) /\ UNCHANGED panicked
                    ELSE panicked' = TRUE /\ info' = inf
            /\ last' = [op |-> "find_idle", node |-> n, fn |-> function,
                        path |-> "fallback"]

\* find_idle run on the manager state (inf, cch, idl)
FindIdleOn(inf, cch, idl, function) ==
    LET v == IF function \in DOMAIN cch THEN cch[function] ELSE <<>>
        k == FirstSafe(v, inf)
    IN  IF Step1Panics(v, inf)
        THEN /\ panicked' = TRUE
             /\ info' = inf
             /\ cached' = cch
             /\ idle' = idl
             /\ UNCHANGED ret
             /\ last' = [op |-> "find_idle", node |-> "-", fn |-> function,
                         path |-> "panic"]
        ELSE IF k > 0
        THEN FindIdleCached(inf, cch, idl, function, k)
        ELSE FindIdleFallback(inf, cch, idl, function)

find_idle(function) == FindIdleOn(info, cached, idle, function)

\* ------------------------------------------------------------- reset
\* if let in place of while let: one worker of the list is popped and sent
\* Task::Terminate
PopOne(workers, sent) ==
    IF workers = <<>> THEN [left |-> workers, sent |-> sent]
    ELSE [left |-> PopRest(workers),
          sent |-> Append(sent, workers[Len(workers)])]

\* while let Some(w) = workers.pop() { w.sender.send(Task::Terminate) }
RECURSIVE PopAll(_, _)
PopAll(workers, sent) ==
    IF workers = <<>> THEN [left |-> workers, sent |-> sent]
    ELSE PopAll(PopRest(workers), Append(sent, workers[Len(workers)]))

\* every idle worker is popped and sent Task::Terminate; the emptied lists
\* are dropped
ResetIdle(idl) == IdleRetain([n \in DOMAIN idl |-> PopAll(idl[n], <<>>).left])

\* the workers sent Task::Terminate, node by node, in the order of the sends
ResetSends(idl) == [n \in DOMAIN idl |-> PopAll(idl[n], <<>>).sent]

\* reset with the commented-out self.cached.retain(|_, _| false) enabled
resetClearsCache ==
    /\ idle' = ResetIdle(idle)
    /\ cached' = EmptyMap
    /\ UNCHANGED <<info, ret, panicked>>
    /\ last' = [op |-> "reset", node |-> "-", fn |-> "-", path |-> "-"]

reset ==
    /\ idle' = ResetIdle(idle)
    /\ UNCHANGED <<info, cached, ret, panicked>>
    /\ last' = [op |-> "reset", node |-> "-", fn |-> "-", path |-> "-"]

\* ------------------------------------------------------------- update
\* update without set_dirty(false) on a known node
UpdateInfoKeepDirty(inf, node, total, free) ==
    LET added == TryAddNode(inf, node)
    IN  [added EXCEPT ![node].total_mem = total, ![node].free_mem = free]

\* the registry after try_add_node, set_dirty(false) and the memory fields
UpdateInfo(inf, node, total, free) ==
    LET success == TryAddNodeSuccess(inf, node)
        added == TryAddNode(inf, node)
        clean == IF ~success THEN [added EXCEPT ![node].dirty = FALSE]
                 ELSE added
    IN  [clean EXCEPT ![node].total_mem = total, ![node].free_mem = free]

\* the Some(nodes) arm pushing a pair without looking for the node's own
UpdateNodesPush(nodes, node, num_cached) ==
    SelectSeq(Append(nodes, <<node, num_cached>>), LAMBDA n : n[2] > 0)

\* Some(nodes) arm of the loop body: set or push the node's pair, then retain
UpdateNodes(nodes, node, num_cached) ==
    LET pos == IndexFrom([i \in 1..Len(nodes) |-> nodes[i][1] = node], 1,
                         Len(nodes))
        set == IF pos > 0
               THEN [i \in 1..Len(nodes) |->
                        IF i = pos THEN <<node, num_cached>> ELSE nodes[i]]
               ELSE Append(nodes, <<node, num_cached>>)
    IN  SelectSeq(set, LAMBDA n : n[2] > 0)

\* the loop treating info.stats as a snapshot of every function: the node's
\* pair is taken out of the lists of the functions it does not name
UpdateCachedSnapshot(cch, node, stats) ==
    LET inserted == {f \in DOMAIN stats : f \notin DOMAIN cch /\ stats[f] > 0}
    IN  [f \in DOMAIN cch \cup inserted |->
            IF f \in DOMAIN cch
            THEN IF f \in DOMAIN stats
                 THEN UpdateNodes(cch[f], node, stats[f])
                 ELSE SelectSeq(cch[f], LAMBDA n : n[1] # node)
            ELSE <<<<node, stats[f]>>>>]

\* the cache index after the loop over info.stats
UpdateCached(cch, node, stats) ==
    LET inserted == {f \in DOMAIN stats : f \notin DOMAIN cch /\ stats[f] > 0}
    IN  [f \in DOMAIN cch \cup inserted |->
            IF f \in DOMAIN cch
            THEN IF f \in DOMAIN stats
                 THEN UpdateNodes(cch[f], node, stats[f])
                 ELSE cch[f]
            ELSE <<<<node, stats[f]>>>>]

update(addr, resinfo) ==
    /\ info' = UpdateInfo(info, addr, resinfo.total_mem, resinfo.free_mem)
    /\ cached' = UpdateCached(cached, addr, resinfo.stats)
    /\ UNCHANGED <<idle, ret, panicked>>
    /\ last' = [op |-> "update", node |-> addr, fn |-> "-", path |-> "-"]

\* ------------------------------------------------------------- remove
\* remove leaving the node's pairs in the cache index
RemoveFromNodesKeep(v, node) == v

\* swap_remove of the first pair of the node, in every function's list
RemoveFromNodes(v, node) ==
    LET pos == IndexFrom([i \in 1..Len(v) |-> v[i][1] = node], 1, Len(v))
    IN  IF pos > 0 THEN SwapRemove(v, pos) ELSE v

RemoveCached(cch, node) == [f \in DOMAIN cch |-> RemoveFromNodes(cch[f], node)]

\* remove that deletes the registry entry and leaves the node's idle workers
removeRegistryOnly(addr) ==
    /\ cached' = RemoveCached(cached, addr)
    /\ info' = Restrict(info, DOMAIN info \ {addr})
    /\ UNCHANGED <<idle, ret, panicked>>
    /\ last' = [op |-> "remove", node |-> addr, fn |-> "-", path |-> "-"]

remove(addr) ==
    /\ cached' = RemoveCached(cached, addr)
    /\ info' = Restrict(info, DOMAIN info \ {addr})
    /\ idle' = Restrict(idle, DOMAIN idle \ {addr})
    /\ UNCHANGED <<ret, panicked>>
    /\ last' = [op |-> "remove", node |-> addr, fn |-> "-", path |-> "-"]

\* ------------------------------------------------------------- the manager
\* ResourceManager::new(): Default::default()
ManagerNew ==
    /\ info = EmptyMap
    /\ cached = EmptyMap
    /\ idle = EmptyMap
    /\ ret = None
    /\ panicked = FALSE
    /\ last = [op |-> "new", node |-> "-", fn |-> "-", path |-> "-"]

\* no request is being handled
HandlerIdle ==
    /\ hpc = "idle"
    /\ hreq = "-"
    /\ hi = 0
    /\ hvm = "none"
    /\ hmsgs = <<>>
    /\ herrs = <<>>
    /\ hstatus = "-"

\* ------------------------------------------------------------- labels
\* req.label.secrecy and req.gate.privilege, as far as they are told apart
Secrecies == {"public", "secret"}
Privileges == {"alice", "bob"}

\* Buckle::new(secrecy, integrity)
Buckle(secrecy, integrity) == [secrecy |-> secrecy, integrity |-> integrity]

\* fs::utils::clear_label(): the thread's label becomes the public one
ClearLabel(cur) == Buckle("public", TRUE)

\* fs::utils::taint_with_label(l): the thread's label is raised to the least
\* upper bound of itself and l
TaintWithLabel(cur, l) ==
    Buckle(IF "secret" \in {cur.secrecy, l.secrecy} THEN "secret" ELSE "public",
           cur.integrity /\ l.integrity)

\* fs::utils::set_my_privilge(p)
SetMyPrivilege(cur, p) == p

\* stands for the address of no worker
NoAddr == [ip |-> "-", port |-> 0]

\* the tasks a run admits, by the order of admission
Tasks == 1..MaxTasks

\* the worker threads of the system runs: one per node
SysAddrs == {a \in Addrs : a.port = 1}

\* every worker thread is at the top of its loop, nothing is admitted
WorkersSpawned ==
    /\ wst = [a \in SysAddrs |-> "get"]
    /\ wtask = [a \in SysAddrs |-> 0]
    /\ tfn = [t \in Tasks |-> "-"]
    /\ tdisp = [t \in Tasks |-> NoAddr]
    /\ wait_list = {}
    /\ pending = <<>>
    /\ answers = [t \in Tasks |-> <<>>]
    /\ shutdown = FALSE
    /\ nevents = 0
    /\ wlog = <<>>
    /\ hlabel = Buckle("public", TRUE)
    /\ hpriv = "-"
    /\ hsec = "-"
    /\ hgate = "-"

Init == ManagerNew /\ HandlerIdle /\ WorkersSpawned

\* workers parked in the idle pool
IdleAddrs == {idle[n][i].addr : <<n, i>> \in
                 {<<m, j>> \in Nodes \X (1..MaxPorts) :
                     m \in DOMAIN idle /\ j <= Len(idle[m])}}

\* the ResourceInfo a local resource manager can send
StatsInputs ==
    UNION {[S -> 0..MaxCached] : S \in SUBSET Functions}

ResourceInfos ==
    [stats : StatsInputs, total_mem : MemVals, free_mem : MemVals]

\* the snapshots of a node whose memory is all in use
FullNodeInfos == {r \in ResourceInfos : r.total_mem = MaxMem /\ r.free_mem = 0}

\* GetTask from a worker: its connection is blocked in get() while it is
\* parked, so only a worker that is not parked sends one
GetTask ==
    \E addr \in Addrs \ IdleAddrs :
        ~panicked /\ add_idle(addr) /\ UNCHANGED <<hvars, svars>>

Placement ==
    \E function \in Functions :
        ~panicked /\ find_idle(function) /\ UNCHANGED <<hvars, svars>>

UpdateResource ==
    \E addr \in Nodes, resinfo \in FullNodeInfos :
        ~panicked /\ update(addr, resinfo) /\ UNCHANGED <<hvars, svars>>

DropResource ==
    \E addr \in Nodes : ~panicked /\ remove(addr) /\ UNCHANGED <<hvars, svars>>

TerminateAll == ~panicked /\ reset /\ UNCHANGED <<hvars, svars>>

Next ==
    \/ GetTask
    \/ Placement
    \/ UpdateResource
    \/ DropResource
    \/ TerminateAll

Spec == Init /\ [][Next]_vars

\* The manager with one worker connection per node: the runs on which the
\* cache index is followed from one update to the next.
GetFirstTask ==
    \E addr \in SysAddrs \ IdleAddrs :
        ~panicked /\ add_idle(addr) /\ UNCHANGED <<hvars, svars>>

CacheNext ==
    \/ GetFirstTask
    \/ Placement
    \/ UpdateResource
    \/ DropResource
    \/ TerminateAll

CacheSpec == Init /\ [][CacheNext]_vars

\* The manager under snapshots that carry any pair of memory figures and no
\* function counts.
MemInfos == {r \in ResourceInfos : DOMAIN r.stats = {}}

UpdateMemory ==
    \E addr \in Nodes, resinfo \in MemInfos :
        ~panicked /\ update(addr, resinfo) /\ UNCHANGED <<hvars, svars>>

MemNext ==
    \/ GetFirstTask
    \/ Placement
    \/ UpdateMemory
    \/ DropResource
    \/ TerminateAll

MemSpec == Init /\ [][MemNext]_vars

\* ------------------------------------------------------------- handle_request
\* if i == 5 { break ProcessRequestFailed }
RetryLimit == 5

\* resource_manager::Error, as the reply to GetVm can carry it
ResourceErrors == {"InsufficientEvict", "LowMemory", "FunctionNotExist", "Other"}

\* vm::Error of vm.launch and of vm.process_req
LaunchErrors == {"ProcessSpawn", "VsockListen"}
ProcessErrors == {"VsockRead", "VsockWrite"}

\* the loop's exit test with the limit off by one
LimitReachedLate(i) == i = RetryLimit + 1

\* if i == 5
LimitReached(i) == i = RetryLimit

\* the match on the resource manager's error
StatusOfError(e) ==
    CASE e \in {"InsufficientEvict", "LowMemory"} -> "ResourceExhausted"
      [] e = "FunctionNotExist" -> "FunctionNotExist"
      [] OTHER -> "Dropped"

Msg(kind) == [kind |-> kind, image |-> hreq]

\* top of the loop: give up after the limit, else count the attempt and send
\* GetVm
HLoop ==
    /\ hpc = "loop"
    /\ IF LimitReached(hi)
       THEN /\ hstatus' = "ProcessRequestFailed"
            /\ hpc' = "done"
            /\ UNCHANGED <<hi, hmsgs>>
       ELSE /\ hi' = hi + 1
            /\ hmsgs' = Append(hmsgs, Msg("GetVm"))
            /\ hpc' = "recv"
            /\ UNCHANGED hstatus
    /\ UNCHANGED <<hreq, hvm, herrs, rmvars, svars>>

\* rx.recv(): Ok(vm), launched (a cached VM) or not (newly allocated)
HRecvOk ==
    /\ hpc = "recv"
    /\ \E launched \in BOOLEAN :
        /\ hvm' = IF launched THEN "launched" ELSE "new"
        /\ hpc' = IF launched THEN "process" ELSE "launch"
    /\ UNCHANGED <<hreq, hi, hmsgs, herrs, hstatus, rmvars, svars>>

\* a failed acquisition that goes round the loop instead of breaking
HRecvErrRetry ==
    /\ hpc = "recv"
    /\ hpc' = "loop"
    /\ UNCHANGED <<hreq, hi, hvm, hmsgs, herrs, hstatus, rmvars, svars>>

\* rx.recv(): Err(e), no retry
HRecvErr ==
    /\ hpc = "recv"
    /\ \E e \in ResourceErrors : hstatus' = StatusOfError(e)
    /\ hpc' = "done"
    /\ UNCHANGED <<hreq, hi, hvm, hmsgs, herrs, rmvars, svars>>

\* vm.launch(...) succeeds
HLaunchOk ==
    /\ hpc = "launch"
    /\ hvm' = "launched"
    /\ hpc' = "process"
    /\ UNCHANGED <<hreq, hi, hmsgs, herrs, hstatus, rmvars, svars>>

\* a failed launch that goes round the loop without sending DeleteVm
HLaunchErrLeak ==
    /\ hpc = "launch"
    /\ \E e \in LaunchErrors :
          herrs' = Append(herrs, [stage |-> "launch", err |-> e])
    /\ hvm' = "none"
    /\ hpc' = "loop"
    /\ UNCHANGED <<hreq, hi, hmsgs, hstatus, rmvars, svars>>

\* vm.launch(...) fails: handle_vm_error, DeleteVm, continue
HLaunchErr ==
    /\ hpc = "launch"
    /\ \E e \in LaunchErrors :
          herrs' = Append(herrs, [stage |-> "launch", err |-> e])
    /\ hmsgs' = Append(hmsgs, Msg("DeleteVm"))
    /\ hvm' = "none"
    /\ hpc' = "loop"
    /\ UNCHANGED <<hreq, hi, hstatus, rmvars, svars>>

\* vm.process_req(payload) succeeds: ReleaseVm, break SentToVM(rsp)
HProcessOk ==
    /\ hpc = "process"
    /\ hmsgs' = Append(hmsgs, Msg("ReleaseVm"))
    /\ hvm' = "none"
    /\ hstatus' = "SentToVM"
    /\ hpc' = "done"
    /\ UNCHANGED <<hreq, hi, herrs, rmvars, svars>>

\* vm.process_req(payload) fails: handle_vm_error, DeleteVm, continue
HProcessErr ==
    /\ hpc = "process"
    /\ \E e \in ProcessErrors :
          herrs' = Append(herrs, [stage |-> "process", err |-> e])
    /\ hmsgs' = Append(hmsgs, Msg("DeleteVm"))
    /\ hvm' = "none"
    /\ hpc' = "loop"
    /\ UNCHANGED <<hreq, hi, hstatus, rmvars, svars>>

\* handle_request is entered with a request for some function image
HandlerEntered ==
    /\ hpc = "loop"
    /\ hreq \in Functions
    /\ hi = 0
    /\ hvm = "none"
    /\ hmsgs = <<>>
    /\ herrs = <<>>
    /\ hstatus = "-"

HandleInit == ManagerNew /\ HandlerEntered /\ WorkersSpawned

HandleNext ==
    \/ HLoop
    \/ HRecvOk
    \/ HRecvErr
    \/ HLaunchOk
    \/ HLaunchErr
    \/ HProcessOk
    \/ HProcessErr

\* the local resource manager answers every GetVm and the VM calls return
HandleSpec == HandleInit /\ [][HandleNext]_vars /\ WF_vars(HandleNext)

\* ------------------------------------------------------------- worker loop
\* a worker thread that returns on an invalid response or a failed get()
AfterGetStopsOnInvalid(kind) ==
    CASE kind = "ProcessTask" -> "handling"
      [] OTHER -> "exited"

\* finish called with the id of the first task instead of req_id
FinishedIdFirst(addr) == 1

\* a worker that treats ProcessTask like an invalid response
AfterGetIgnoresTask(kind) ==
    CASE kind = "Terminate" -> "exited"
      [] OTHER -> "get"

\* the match on the response to get(): ProcessTask is handled, Terminate
\* ends the thread, anything else (or an error) goes round the loop
AfterGet(kind) ==
    CASE kind = "ProcessTask" -> "handling"
      [] kind = "Terminate" -> "exited"
      [] OTHER -> "get"

\* finish(req_id, result): the task id the FinishTask carries
FinishedId(addr) == wtask[addr]

\* ------------------------------------------------------------- scheduler
\* ProcessTask{task_id} written to the worker that placement returned
Dispatched(workers, worker, t) ==
    [workers EXCEPT ![worker.addr] = AfterGet("ProcessTask")]

\* GetTask from the worker at addr: registered as idle; a parked invocation,
\* if any, is placed again
SysGetTask(addr) ==
    /\ ~panicked
    /\ wst[addr] = "get"
    /\ LET parked == [wst EXCEPT ![addr] = "parked"] IN
       IF pending = <<>>
       THEN /\ add_idle(addr)
            /\ wst' = parked
            /\ UNCHANGED <<wtask, tdisp, pending>>
       ELSE LET t == Head(pending) IN
            /\ FindIdleOn(TryAddNode(info, addr.ip), cached,
                          AddIdlePool(idle, addr), tfn[t])
            /\ IF ret' # None /\ ~panicked'
               THEN /\ wst' = Dispatched(parked, ret'[1], t)
                    /\ wtask' = [wtask EXCEPT ![ret'[1].addr] = t]
                    /\ tdisp' = [tdisp EXCEPT ![t] = ret'[1].addr]
                    /\ pending' = Tail(pending)
               ELSE /\ wst' = parked
                    /\ UNCHANGED <<wtask, tdisp, pending>>
    /\ UNCHANGED <<tfn, wait_list, answers, shutdown, nevents, hvars, tvars>>

\* LabeledInvoke: a task id is minted and put on the wait list, then placed
\* or parked
SysLabeledInvoke(function) ==
    /\ ~panicked
    /\ ~shutdown
    /\ \E t \in Tasks :
        /\ tfn[t] = "-"
        /\ \A u \in Tasks : u < t => tfn[u] # "-"
        /\ tfn' = [tfn EXCEPT ![t] = function]
        /\ wait_list' = wait_list \cup {t}
        /\ find_idle(function)
        /\ IF ret' # None /\ ~panicked'
           THEN /\ wst' = Dispatched(wst, ret'[1], t)
                /\ wtask' = [wtask EXCEPT ![ret'[1].addr] = t]
                /\ tdisp' = [tdisp EXCEPT ![t] = ret'[1].addr]
                /\ UNCHANGED pending
           ELSE /\ pending' = Append(pending, t)
                /\ UNCHANGED <<wst, wtask, tdisp>>
    /\ UNCHANGED <<answers, shutdown, nevents, hvars, tvars>>

\* the worker at addr returns from handle_request and sends FinishTask; the
\* scheduler forwards the result to the caller on the wait list, or drops it
SysFinishTask(addr) ==
    /\ ~panicked
    /\ wst[addr] = "handling"
    /\ LET t == FinishedId(addr) IN
       IF t \in wait_list
       THEN /\ wait_list' = wait_list \ {t}
            /\ answers' = [answers EXCEPT
                               ![t] = Append(@, [kind |-> "FinishTask",
                                                 from |-> addr])]
       ELSE UNCHANGED <<wait_list, answers>>
    /\ wst' = [wst EXCEPT ![addr] = "get"]
    /\ wtask' = [wtask EXCEPT ![addr] = 0]
    /\ UNCHANGED <<tfn, tdisp, pending, shutdown, nevents, rmvars, hvars,
                   tvars>>

\* the snapshots of a node that keeps at most one warm VM, of hello
SysInfos ==
    {r \in FullNodeInfos :
        DOMAIN r.stats \subseteq {"hello"} /\
        \A f \in DOMAIN r.stats : r.stats[f] <= 1}

SysUpdateResource ==
    \E addr \in Nodes, resinfo \in SysInfos :
        /\ ~panicked
        /\ nevents < MaxEvents
        /\ nevents' = nevents + 1
        /\ update(addr, resinfo)
        /\ UNCHANGED <<wst, wtask, tfn, tdisp, wait_list, pending, answers,
                       shutdown, hvars, tvars>>

\* DropResource: the node's parked workers lose their reply channel, their
\* get() fails and they go round the loop
SysDropResource ==
    \E addr \in Nodes :
        /\ ~panicked
        /\ nevents < MaxEvents
        /\ nevents' = nevents + 1
        /\ remove(addr)
        /\ wst' = [a \in SysAddrs |->
                      IF wst[a] = "parked" /\ a.ip = addr
                      THEN AfterGet("Error") ELSE wst[a]]
        /\ UNCHANGED <<wtask, tfn, tdisp, wait_list, pending, answers,
                       shutdown, hvars, tvars>>

\* the callers still parked get Terminated
RECURSIVE Drained(_, _)
Drained(ans, queue) ==
    IF queue = <<>> THEN ans
    ELSE Drained([ans EXCEPT
                     ![Head(queue)] = Append(@, [kind |-> "Terminated",
                                                 from |-> NoAddr])],
                 Tail(queue))

\* TerminateAll: Terminate to every idle worker, Terminated to every parked
\* invocation
SysTerminateAll ==
    /\ ~panicked
    /\ reset
    /\ wst' = [a \in SysAddrs |->
                  IF \E n \in DOMAIN idle :
                        \E i \in 1..Len(ResetSends(idle)[n]) :
                           ResetSends(idle)[n][i].addr = a
                  THEN AfterGet("Terminate") ELSE wst[a]]
    /\ answers' = Drained(answers, pending)
    /\ wait_list' = wait_list \ {pending[i] : i \in 1..Len(pending)}
    /\ pending' = <<>>
    /\ shutdown' = TRUE
    /\ UNCHANGED <<wtask, tfn, tdisp, nevents, hvars, tvars>>

SysNext ==
    \/ \E addr \in SysAddrs : SysGetTask(addr)
    \/ \E function \in Functions : SysLabeledInvoke(function)
    \/ \E addr \in SysAddrs : SysFinishTask(addr)
    \/ SysUpdateResource
    \/ SysDropResource
    \/ SysTerminateAll

\* a worker thread that can send GetTask or FinishTask does so, and the
\* scheduler handles it
SysFairness ==
    \A addr \in SysAddrs :
        WF_vars(SysGetTask(addr)) /\ WF_vars(SysFinishTask(addr))

SysSpec == Init /\ [][SysNext]_vars /\ SysFairness

\* ------------------------------------------------------------- worker thread
\* number of entries of a kind in a sequence of messages
RECURSIVE CountKind(_, _)
CountKind(msgs, kind) ==
    IF msgs = <<>> THEN 0
    ELSE (IF Head(msgs).kind = kind THEN 1 ELSE 0) + CountKind(Tail(msgs), kind)

\* the worker thread that is followed call by call
WorkerThread == [ip |-> "A", port |-> 1]

\* an entry of the stream log
Entry(kind, id, secrecy, privilege) ==
    [kind |-> kind, id |-> id, secrecy |-> secrecy, privilege |-> privilege]

\* what get() can come back with besides a ProcessTask: Terminate, a response
\* of another kind (or none), an Err
OtherReplies == {"Terminate", "Invalid", "Error"}

\* sched_rpc.get() returns Ok(ProcessTask{task_id, invoke}): the request is
\* parsed and handle_request is called with it
WProcessTask ==
    /\ wst[WorkerThread] = "get"
    /\ hpc = "idle"
    /\ CountKind(wlog, "GetTask") < MaxGets
    /\ \E t \in Tasks, image \in Functions, sec \in Secrecies,
          priv \in Privileges :
          /\ wlog' = wlog \o <<Entry("GetTask", 0, "-", "-"),
                               Entry("ProcessTask", t, sec, priv)>>
          /\ wst' = [wst EXCEPT ![WorkerThread] = AfterGet("ProcessTask")]
          /\ wtask' = [wtask EXCEPT ![WorkerThread] = t]
          /\ hreq' = image
          /\ hsec' = sec
          /\ hgate' = priv
    /\ hpc' = "entry"
    /\ UNCHANGED <<hi, hvm, hmsgs, herrs, hstatus, hlabel, hpriv, rmvars,
                   tfn, tdisp, wait_list, pending, answers, shutdown, nevents>>

\* sched_rpc.get() returns anything else
WOtherReply(kind) ==
    /\ wst[WorkerThread] = "get"
    /\ hpc = "idle"
    /\ CountKind(wlog, "GetTask") < MaxGets
    /\ wlog' = wlog \o <<Entry("GetTask", 0, "-", "-"), Entry(kind, 0, "-", "-")>>
    /\ wst' = [wst EXCEPT ![WorkerThread] = AfterGet(kind)]
    /\ UNCHANGED <<wtask, hvars, hlabel, hpriv, hsec, hgate, rmvars,
                   tfn, tdisp, wait_list, pending, answers, shutdown, nevents>>

\* handle_request entered without the three calls that set the context
HEnterKeepsContext ==
    /\ wst[WorkerThread] = "handling"
    /\ hpc = "entry"
    /\ hi' = 0
    /\ hpc' = "loop"
    /\ UNCHANGED <<hreq, hvm, hmsgs, herrs, hstatus, hlabel, hpriv, hsec,
                   hgate, wlog, rmvars, wst, wtask, tfn, tdisp, wait_list,
                   pending, answers, shutdown, nevents>>

\* handle_request up to the loop: clear_label, taint_with_label, set_my_privilge,
\* let mut i = 0
HEnter ==
    /\ wst[WorkerThread] = "handling"
    /\ hpc = "entry"
    /\ hlabel' = TaintWithLabel(ClearLabel(hlabel), Buckle(hsec, TRUE))
    /\ hpriv' = SetMyPrivilege(hpriv, hgate)
    /\ hi' = 0
    /\ hpc' = "loop"
    /\ UNCHANGED <<hreq, hvm, hmsgs, herrs, hstatus, hsec, hgate, wlog,
                   rmvars, wst, wtask, tfn, tdisp, wait_list, pending,
                   answers, shutdown, nevents>>

\* handle_request has returned: finish(req_id, result), whose result is
\* dropped (let _), and round the loop
WFinish ==
    /\ wst[WorkerThread] = "handling"
    /\ hpc = "done"
    /\ \E ok \in BOOLEAN :
          wlog' = wlog \o
                    (<<Entry("FinishTask", FinishedId(WorkerThread), "-", "-")>>
                     \o IF ok THEN <<>>
                        ELSE <<Entry("FinishErr", 0, "-", "-")>>)
    /\ wst' = [wst EXCEPT ![WorkerThread] = "get"]
    /\ wtask' = [wtask EXCEPT ![WorkerThread] = 0]
    /\ hpc' = "idle"
    /\ hreq' = "-"
    /\ hi' = 0
    /\ hvm' = "none"
    /\ hmsgs' = <<>>
    /\ herrs' = <<>>
    /\ hstatus' = "-"
    /\ hsec' = "-"
    /\ hgate' = "-"
    /\ UNCHANGED <<hlabel, hpriv, rmvars, tfn, tdisp, wait_list, pending,
                   answers, shutdown, nevents>>

WorkerNext ==
    \/ WProcessTask
    \/ \E kind \in OtherReplies : WOtherReply(kind)
    \/ HEnter
    \/ HandleNext
    \/ WFinish

\* the thread keeps running: handle_request is entered, runs and returns
\* (the local manager answers GetVm, the VM calls return), finish is called
WorkerFairness ==
    WF_vars(HEnter) /\ WF_vars(HandleNext) /\ WF_vars(WFinish)

WorkerSpec == Init /\ [][WorkerNext]_vars /\ WorkerFairness

\* ------------------------------------------------------------- properties
wA1 == [addr |-> [ip |-> "A", port |-> 1]]
wA2 == [addr |-> [ip |-> "A", port |-> 2]]
wB1 == [addr |-> [ip |-> "B", port |-> 1]]

\* number of idle workers the pool holds for node n
IdleCount(n) == IF n \in DOMAIN idle THEN Len(idle[n]) ELSE 0

\* C1: every pair (n, k) stored in the cache index has k > 0 and n in the
\* node registry.
C1_CacheEntriesPositiveAndRegistered ==
    \A f \in DOMAIN cached : \A i \in 1..Len(cached[f]) :
        /\ cached[f][i][2] > 0
        /\ cached[f][i][1] \in DOMAIN info

\* a drop has just removed one node while another node's pair stays cached
C1_Witness ==
    /\ last.op = "remove"
    /\ \E f \in DOMAIN cached : cached[f] # <<>>
    /\ C1_CacheEntriesPositiveAndRegistered

\* C2: the warm-VM count cached for a node never exceeds the number of idle
\* workers registered for that node.
C2_CachedImpliesIdle ==
    \A f \in DOMAIN cached : \A i \in 1..Len(cached[f]) :
        cached[f][i][2] <= IdleCount(cached[f][i][1])

\* C5: a placement made while the idle pool holds a worker returns a worker.
C5_NoneOnlyWhenNothingIdle ==
    [][(last'.op = "find_idle" /\ (\E n \in DOMAIN idle : idle[n] # <<>>))
          => ret' # None]_vars

\* C6: right after update from a node, the node is registered and clean.
C6_UpdateLeavesNodeClean ==
    last.op = "update" =>
        /\ last.node \in DOMAIN info
        /\ ~info[last.node].dirty

\* an update has just been handled while the other node is still dirty
C6_Witness ==
    /\ last.op = "update"
    /\ last.node \in DOMAIN info
    /\ ~info[last.node].dirty
    /\ \E n \in DOMAIN info : info[n].dirty

\* C7: when the fallback path of find_idle returns a worker, that worker's
\* node is dirty right afterwards.
C7_FallbackMarksDirty ==
    (last.op = "find_idle" /\ last.path = "fallback" /\ ret # None) =>
        /\ ret[1].addr.ip \in DOMAIN info
        /\ info[ret[1].addr.ip].dirty

\* cache = {}, idle was {A: [wA1]}: invoking world returned wA1, A is dirty
C7_Witness ==
    /\ last = [op |-> "find_idle", node |-> "A", fn |-> "world",
               path |-> "fallback"]
    /\ cached = EmptyMap
    /\ ret = Some(wA1)
    /\ idle = EmptyMap
    /\ DOMAIN info = {"A"}
    /\ info["A"].dirty

\* C8: a registered dirty node becomes clean only by an update from that
\* node.
C8_DirtyClearedOnlyByUpdate ==
    [][\A n \in Nodes :
          (n \in DOMAIN info /\ info[n].dirty /\
           n \in DOMAIN info' /\ ~info'[n].dirty)
              => (last'.op = "update" /\ last'.node = n)]_vars

\* an update from A has been handled and left the dirty node B dirty
C8_Witness ==
    /\ last.op = "update"
    /\ last.node = "A"
    /\ "B" \in DOMAIN info
    /\ info["B"].dirty
    /\ ~info["A"].dirty

\* the setup of the dirty-skip and cache-hit scenarios
ScenarioPools ==
    /\ "hello" \in DOMAIN cached
    /\ cached["hello"] = << <<"A", 2>>, <<"B", 1>> >>
    /\ DOMAIN idle = {"A", "B"}
    /\ idle["A"] = <<wA1, wA2>>
    /\ idle["B"] = <<wB1>>
    /\ DOMAIN info = {"A", "B"}

DirtySkipSetup == ScenarioPools /\ info["A"].dirty /\ ~info["B"].dirty

CacheHitSetup == ScenarioPools /\ ~info["A"].dirty /\ ~info["B"].dirty

InvokedHello == last'.op = "find_idle" /\ last'.fn = "hello"

\* C9 as stated: in the dirty-skip scenario invoking hello returns wB1,
\* leaves cache["hello"] = [(A,2)] and B dirty.
C9_DirtySkipLeavesBDirty ==
    [][(DirtySkipSetup /\ InvokedHello) =>
          /\ ret' = Some(wB1)
          /\ cached'["hello"] = << <<"A", 2>> >>
          /\ info'["B"].dirty]_vars

\* C9 amended: in the dirty-skip scenario invoking hello returns wB1, leaves
\* cache["hello"] = [(A,2)], and B stays clean.
C9_DirtySkipLeavesBClean ==
    [][(DirtySkipSetup /\ InvokedHello) =>
          /\ ret' = Some(wB1)
          /\ cached'["hello"] = << <<"A", 2>> >>
          /\ idle' = [n \in {"A"} |-> <<wA1, wA2>>]
          /\ info'["A"].dirty
          /\ ~info'["B"].dirty]_vars

\* the state the dirty-skip scenario ends in
C9_Witness ==
    /\ last = [op |-> "find_idle", node |-> "B", fn |-> "hello",
               path |-> "cached"]
    /\ ret = Some(wB1)
    /\ "hello" \in DOMAIN cached
    /\ cached["hello"] = << <<"A", 2>> >>
    /\ idle = [n \in {"A"} |-> <<wA1, wA2>>]
    /\ DOMAIN info = {"A", "B"}
    /\ info["A"].dirty
    /\ ~info["B"].dirty

\* C10 as stated: in the cache-hit scenario invoking hello returns wA1 and
\* leaves cache["hello"] = [(A,1),(B,1)], idle[A] = [wA2].
C10_CacheHitReturnsFirstWorker ==
    [][(CacheHitSetup /\ InvokedHello) =>
          /\ ret' = Some(wA1)
          /\ cached'["hello"] = << <<"A", 1>>, <<"B", 1>> >>
          /\ idle'["A"] = <<wA2>>]_vars

\* C10 amended: in the cache-hit scenario invoking hello selects A, returns
\* the worker registered last on A (wA2) and leaves
\* cache["hello"] = [(A,1),(B,1)], idle[A] = [wA1].
C10_CacheHitReturnsLastWorker ==
    [][(CacheHitSetup /\ InvokedHello) =>
          /\ last'.node = "A"
          /\ ret' = Some(wA2)
          /\ cached'["hello"] = << <<"A", 1>>, <<"B", 1>> >>
          /\ idle' = [n \in {"A", "B"} |->
                         IF n = "A" THEN <<wA1>> ELSE <<wB1>>]]_vars

\* the state the cache-hit scenario ends in
C10_Witness ==
    /\ last = [op |-> "find_idle", node |-> "A", fn |-> "hello",
               path |-> "cached"]
    /\ ret = Some(wA2)
    /\ "hello" \in DOMAIN cached
    /\ cached["hello"] = << <<"A", 1>>, <<"B", 1>> >>
    /\ idle = [n \in {"A", "B"} |-> IF n = "A" THEN <<wA1>> ELSE <<wB1>>]
    /\ DOMAIN info = {"A", "B"}
    /\ ~info["A"].dirty
    /\ ~info["B"].dirty

C4_RetryBound ==
    /\ CountKind(hmsgs, "GetVm") <= 5
    /\ CountKind(hmsgs, "GetVm") = hi
    /\ hpc = "done" =>
          /\ hstatus = "ProcessRequestFailed" <=> Len(herrs) = 5
          /\ hstatus = "ProcessRequestFailed" =>
                /\ CountKind(hmsgs, "GetVm") = 5
                /\ CountKind(hmsgs, "DeleteVm") = 5
                /\ CountKind(hmsgs, "ReleaseVm") = 0

\* C4: handle_request sends at most 5 GetVm; it returns ProcessRequestFailed
\* exactly when 5 attempts acquired a VM and then failed in launch or
\* process_req (with 5 DeleteVm sent); and it always returns.
C4_BoundedRetryAndReturn == [](C4_RetryBound) /\ <>(hpc = "done")

\* process_req failed with VsockRead five times in a row
C4_Witness ==
    /\ hpc = "done"
    /\ hstatus = "ProcessRequestFailed"
    /\ herrs = [k \in 1..5 |-> [stage |-> "process", err |-> "VsockRead"]]
    /\ CountKind(hmsgs, "DeleteVm") = 5
    /\ CountKind(hmsgs, "GetVm") = 5

Admitted(t) == tfn[t] # "-"

\* no caller is answered twice, and a FinishTask result comes from the worker
\* the task was dispatched to
AnsweredAtMostOnce ==
    \A t \in Tasks :
        /\ Len(answers[t]) <= 1
        /\ \A i \in 1..Len(answers[t]) :
              /\ Admitted(t)
              /\ answers[t][i].kind \in {"FinishTask", "Terminated"}
              /\ answers[t][i].kind = "FinishTask" =>
                    answers[t][i].from = tdisp[t]

EntriesOf(cch, f, n) ==
    IF f \in DOMAIN cch THEN SelectSeq(cch[f], LAMBDA p : p[1] = n) ELSE <<>>

\* C11: after update from node n with stats, n's pair in cache[F] is (n, k)
\* for every listed (F, k) with k > 0 and is absent for k = 0, and n's pair
\* in the list of every function that stats does not list is what it was.
C11_UpdateReconcilesListedOnly ==
    [][last'.op = "update" =>
          \A resinfo \in FullNodeInfos :
             update(last'.node, resinfo) =>
                \A f \in Functions :
                   EntriesOf(cached', f, last'.node) =
                      IF f \in DOMAIN resinfo.stats
                      THEN IF resinfo.stats[f] > 0
                           THEN <<<<last'.node, resinfo.stats[f]>>>>
                           ELSE <<>>
                      ELSE EntriesOf(cached, f, last'.node)]_vars

\* an update from B has emptied hello's list and left world with B's count
C11_Witness ==
    /\ last.op = "update"
    /\ last.node = "B"
    /\ DOMAIN cached = {"hello", "world"}
    /\ cached["hello"] = <<>>
    /\ cached["world"] = <<<<"B", MaxCached>>>>

\* C12: no function key of the cache index maps to an empty entry list.
C12_NoEmptyFunctionKey ==
    \A f \in DOMAIN cached : cached[f] # <<>>

\* C13: a function's entry list holds at most one pair per node, so remove,
\* which takes out the first pair it finds, leaves none of the node's.
C13_OnePairPerNode ==
    /\ \A f \in DOMAIN cached :
          \A i, j \in 1..Len(cached[f]) :
             cached[f][i][1] = cached[f][j][1] => i = j
    /\ last.op = "remove" =>
          \A f \in Functions : EntriesOf(cached, f, last.node) = <<>>

\* a list that names both nodes, after an update set the count of one that
\* was already listed
C13_Witness ==
    /\ last.op = "update"
    /\ "hello" \in DOMAIN cached
    /\ cached["hello"] = <<<<"A", 1>>, <<"B", MaxCached>>>>
    /\ last.node = "A"

\* C14: every node present in the idle pool has at least one idle worker.
C14_NoEmptyIdleList ==
    \A n \in DOMAIN idle : Len(idle[n]) >= 1

\* placement took the only idle worker of A and A left the pool
C14_Witness ==
    /\ last.op = "find_idle"
    /\ ret = Some(wA1)
    /\ "A" \notin DOMAIN idle
    /\ "B" \in DOMAIN idle

\* after remove the node is in no part of the manager's state
Dropped(n) ==
    /\ n \notin DOMAIN info
    /\ IdleCount(n) = 0
    /\ \A f \in Functions : EntriesOf(cached, f, n) = <<>>

\* C15: after remove from a, Node(a.ip) is absent from the registry, the idle
\* pool and every cache entry list; placement returns only workers that were
\* idle, and a node gains idle workers only by add_idle (GetTask).
C15_DroppedNodeIsGone ==
    /\ [](last.op = "remove" => Dropped(last.node))
    /\ [][(last'.op = "find_idle" /\ last'.path # "panic" /\ ret' # None) =>
             ret'[1].addr \in IdleAddrs]_vars
    /\ [][\A n \in Nodes :
             IdleCount(n)' > IdleCount(n) =>
                last'.op = "add_idle" /\ last'.node = n]_vars

\* A is dropped while B keeps its idle worker and its cache entry
C15_Witness ==
    /\ last.op = "remove"
    /\ last.node = "A"
    /\ Dropped("A")
    /\ idle = [n \in {"B"} |-> <<wB1>>]
    /\ "hello" \in DOMAIN cached
    /\ cached["hello"] = <<<<"B", 1>>>>

\* ------------------------------------------------------------- memory
\* C16: for every node in the registry, free_mem <= total_mem.
C16_FreeWithinTotal ==
    \A n \in DOMAIN info : info[n].free_mem <= info[n].total_mem

\* ------------------------------------------------------------- TerminateAll
\* how many Task::Terminate reset sends to the worker at address a
TerminatesSent(idl, a) ==
    Cardinality({<<n, i>> \in (DOMAIN idl) \X (1..(MaxPorts + 1)) :
                    i <= Len(ResetSends(idl)[n]) /\
                    ResetSends(idl)[n][i].addr = a})

\* C17: reset sends exactly one Terminate to every worker idle at that
\* moment, none to any other, and leaves the idle pool empty.
C17_ResetTerminatesEveryIdleWorker ==
    [][last'.op = "reset" =>
          /\ idle' = EmptyMap
          /\ \A a \in Addrs :
                TerminatesSent(idle, a) = IF a \in IdleAddrs THEN 1 ELSE 0]_vars

\* reset has emptied a pool after both nodes had registered workers and a
\* placement had taken one
C17_Witness ==
    /\ last.op = "reset"
    /\ idle = EmptyMap
    /\ DOMAIN info = {"A", "B"}
    /\ ret = Some(wA2)

\* C18: once TerminateAll has been handled, every invocation that was waiting
\* for a worker has been answered Terminated and is off the wait list, and
\* no worker that sends GetTask afterwards is parked as idle.
C18_TerminateAllResolvesAndRefuses ==
    shutdown =>
       /\ pending = <<>>
       /\ \A t \in Tasks :
             (Admitted(t) /\ tdisp[t] = NoAddr) =>
                /\ t \notin wait_list
                /\ answers[t] = <<[kind |-> "Terminated", from |-> NoAddr]>>
       /\ \A a \in SysAddrs : wst[a] # "parked"

\* ------------------------------------------------------------- VM hand-back
\* the statuses of a failed acquisition
AcquireStatuses == {"ResourceExhausted", "FunctionNotExist", "Dropped"}

\* handle_request has returned because GetVm was answered with an error
AcquireFailed == hpc = "done" /\ hstatus \in AcquireStatuses

\* C19: a failed VM acquisition ends the task on whichever attempt it occurs:
\* the status is ResourceExhausted for InsufficientEvict and LowMemory,
\* FunctionNotExist for FunctionNotExist and Dropped for any other error,
\* nothing is sent after the GetVm that failed, and no further GetVm follows.
C19_AcquisitionFailureIsTerminal ==
    /\ [](/\ StatusOfError("InsufficientEvict") = "ResourceExhausted"
          /\ StatusOfError("LowMemory") = "ResourceExhausted"
          /\ StatusOfError("FunctionNotExist") = "FunctionNotExist"
          /\ StatusOfError("Other") = "Dropped")
    /\ [][(hpc = "recv" /\ hpc' \notin {"launch", "process"}) =>
             /\ hpc' = "done"
             /\ hmsgs' = hmsgs
             /\ hi' = hi
             /\ \E e \in ResourceErrors : hstatus' = StatusOfError(e)]_vars
    /\ [](AcquireFailed =>
             /\ hmsgs[Len(hmsgs)].kind = "GetVm"
             /\ CountKind(hmsgs, "GetVm") = hi
             /\ CountKind(hmsgs, "ReleaseVm") = 0
             /\ CountKind(hmsgs, "DeleteVm") = hi - 1)

\* the third acquisition fails for want of memory, after two VMs were
\* deleted
C19_Witness ==
    /\ hpc = "done"
    /\ hstatus = "ResourceExhausted"
    /\ hi = 3
    /\ CountKind(hmsgs, "DeleteVm") = 2
    /\ hmsgs[Len(hmsgs)].kind = "GetVm"

\* the VMs GetVm has handed over so far
VmsAcquired == hi - (IF hpc = "recv" \/ AcquireFailed THEN 1 ELSE 0)

\* the VMs given back so far
VmsReturned == CountKind(hmsgs, "ReleaseVm") + CountKind(hmsgs, "DeleteVm")

\* C20: every VM handed over by GetVm is given back exactly once before the
\* next GetVm or the return, by ReleaseVm exactly when process_req succeeded
\* and by DeleteVm when launch or process_req failed.
C20_EveryVmGivenBackOnce ==
    /\ (hvm # "none") <=> (hpc \in {"launch", "process"})
    /\ VmsReturned = VmsAcquired - (IF hvm # "none" THEN 1 ELSE 0)
    /\ CountKind(hmsgs, "DeleteVm") = Len(herrs)
    /\ CountKind(hmsgs, "ReleaseVm") = (IF hstatus = "SentToVM" THEN 1 ELSE 0)
    /\ \A i \in 1..Len(hmsgs) :
          IF hmsgs[i].kind = "GetVm"
          THEN i > 1 => hmsgs[i - 1].kind = "DeleteVm"
          ELSE i > 1 /\ hmsgs[i - 1].kind = "GetVm"

\* a launch failure and a process_req failure were each answered with
\* DeleteVm, the third VM served the request and was released
C20_Witness ==
    /\ hpc = "done"
    /\ hstatus = "SentToVM"
    /\ [i \in 1..Len(hmsgs) |-> hmsgs[i].kind] =
          <<"GetVm", "DeleteVm", "GetVm", "DeleteVm", "GetVm", "ReleaseVm">>
    /\ [i \in 1..Len(herrs) |-> herrs[i].stage] = <<"launch", "process">>

\* ------------------------------------------------------------- frame effects
\* C24: reset changes only the idle pool: the cache index, every NodeInfo
\* and the set of registered nodes are as before the call.
C24_ResetTouchesOnlyIdle ==
    [][last'.op = "reset" => (cached' = cached /\ info' = info)]_vars

\* reset ran on a manager with a cache entry, a dirty node and memory
\* figures, and these are all still there
C24_Witness ==
    /\ last.op = "reset"
    /\ idle = EmptyMap
    /\ "hello" \in DOMAIN cached
    /\ cached["hello"] = <<<<"B", MaxCached>>>>
    /\ DOMAIN info = {"A", "B"}
    /\ info["A"].dirty
    /\ info["B"].total_mem = MaxMem

\* the position of node n's pair in the list v, 0 when it has none
PosOf(v, n) == IndexFrom([i \in 1..Len(v) |-> v[i][1] = n], 1, Len(v))

\* the list v with the count of its k-th pair one lower, the pair pruned at 0
OneLess(v, k) ==
    IF v[k][2] = 1
    THEN [i \in 1..(Len(v) - 1) |-> IF i < k THEN v[i] ELSE v[i + 1]]
    ELSE [v EXCEPT ![k] = <<v[k][1], v[k][2] - 1>>]

\* C25: when find_idle(F) matches in step 1, exactly one entry of cache[F]
\* loses exactly 1, its node is clean, a returned worker is of that node, no
\* other entry and no other function's list changes; no placement lowers the
\* count of a dirty node.
C25_Step1DecrementsOneCleanEntry ==
    /\ [][(last'.op = "find_idle" /\ last'.path = "cached") =>
             LET F == last'.fn
                 n == last'.node
                 k == PosOf(cached[F], n)
             IN  /\ k > 0
                 /\ ~info[n].dirty
                 /\ cached' = [cached EXCEPT ![F] = OneLess(cached[F], k)]
                 /\ info' = info
                 /\ ret' # None => ret'[1].addr.ip = n]_vars
    /\ [][last'.op = "find_idle" =>
             \A m \in DOMAIN info : info[m].dirty =>
                \A f \in Functions :
                   EntriesOf(cached', f, m) = EntriesOf(cached, f, m)]_vars

\* hello's list named dirty A first; placement passed it over, took B's last
\* cached VM and a worker of B
C25_Witness ==
    /\ last = [op |-> "find_idle", node |-> "B", fn |-> "hello",
               path |-> "cached"]
    /\ ret = Some(wB1)
    /\ "A" \in DOMAIN info
    /\ info["A"].dirty
    /\ cached["hello"] = <<<<"A", MaxCached>>>>

\* C27: a find_idle that returns None leaves the cache index, the idle pool
\* and every node's dirty flag as they were.
C27_NoneChangesNothing ==
    [][(last'.op = "find_idle" /\ last'.path # "panic" /\ ret' = None) =>
          (cached' = cached /\ idle' = idle /\ info' = info)]_vars

\* C28: every node with an idle-pool entry is in the node registry, so the
\* lookup that marks the fallback worker's node dirty never fails.
C28_IdleNodesAreRegistered ==
    /\ DOMAIN idle \subseteq DOMAIN info
    /\ ~(panicked /\ last.path = "fallback")

\* A was dropped and came back with a GetTask; the fallback took its worker
\* and found A in the registry
C28_Witness ==
    /\ last = [op |-> "find_idle", node |-> "A", fn |-> "world",
               path |-> "fallback"]
    /\ ret = Some(wA2)
    /\ "A" \in DOMAIN info
    /\ info["A"].dirty
    /\ ~panicked
    /\ "B" \notin DOMAIN info

\* ------------------------------------------------------------- registrations
\* how many entries of the idle pool idl the worker at address a has
RegistrationsIn(idl, a) ==
    Cardinality(UNION {{<<n, i>> : i \in {j \in 1..Len(idl[n]) :
                                            idl[n][j].addr = a}} :
                       n \in DOMAIN idl})

Registrations(a) == RegistrationsIn(idle, a)

\* C26: a registration is consumed by at most one match: a worker has at
\* most one idle-pool entry, the entry is gone once find_idle has returned
\* it, and a worker that is processing a task has no entry and is not handed
\* another task.
C26_RegistrationConsumedOnce ==
    /\ [](\A a \in SysAddrs :
             /\ Registrations(a) <= 1
             /\ wst[a] = "handling" => Registrations(a) = 0
             /\ wst[a] = "parked" <=> Registrations(a) = 1)
    /\ [][(last'.op = "find_idle" /\ last'.path # "panic" /\ ret' # None) =>
             RegistrationsIn(idle', ret'[1].addr) = 0]_vars
    /\ [][\A a \in SysAddrs :
             wst[a] = "handling" =>
                (wtask'[a] = wtask[a] \/ wst'[a] = "get")]_vars

\* the worker on A finished task 1, registered again and was handed task 2
C26_Witness ==
    /\ answers[1] = <<[kind |-> "FinishTask", from |-> wA1.addr]>>
    /\ wst[wA1.addr] = "handling"
    /\ wtask[wA1.addr] = 2
    /\ tdisp[2] = wA1.addr
    /\ Registrations(wA1.addr) = 0

\* ------------------------------------------------------------- worker stream
\* the kinds of the entries of the worker's stream log
LogKinds == [i \in 1..Len(wlog) |-> wlog[i].kind]

\* every ProcessTask is answered by the FinishTask next to it, with its id,
\* or is the task the worker is handling; every FinishTask answers the
\* ProcessTask just before it
FinishPairsWithTask ==
    \A i \in 1..Len(wlog) :
       /\ wlog[i].kind = "ProcessTask" =>
             IF i = Len(wlog)
             THEN /\ wst[WorkerThread] = "handling"
                  /\ wtask[WorkerThread] = wlog[i].id
             ELSE /\ wlog[i + 1].kind = "FinishTask"
                  /\ wlog[i + 1].id = wlog[i].id
       /\ wlog[i].kind = "FinishTask" =>
             /\ i > 1
             /\ wlog[i - 1].kind = "ProcessTask"
             /\ wlog[i - 1].id = wlog[i].id

\* C21: for every ProcessTask a worker receives it sends exactly one
\* FinishTask with that task_id, before its next GetTask, and it sends no
\* FinishTask for a task_id it was not given.
C21_OneFinishPerTask ==
    /\ []FinishPairsWithTask
    /\ (wst[WorkerThread] = "handling") ~> (wst[WorkerThread] = "get")

\* two tasks with different ids were each finished once
C21_Witness ==
    /\ Len(wlog) = 6
    /\ LogKinds = <<"GetTask", "ProcessTask", "FinishTask",
                    "GetTask", "ProcessTask", "FinishTask">>
    /\ wlog[3].id = 2
    /\ wlog[6].id = 1
    /\ wst[WorkerThread] = "get"

\* C22: the worker loop exits only on Terminate: after an unexpected
\* response, a failed get() or a failed finish() the worker is back at get()
\* and has sent no FinishTask for it; after Terminate it sends nothing.
C22_ExitsOnlyOnTerminate ==
    /\ wst[WorkerThread] = "exited" <=>
          (wlog # <<>> /\ wlog[Len(wlog)].kind = "Terminate")
    /\ \A i \in 1..Len(wlog) :
          /\ wlog[i].kind = "Terminate" => i = Len(wlog)
          /\ wlog[i].kind \in {"Invalid", "Error", "FinishErr"} =>
                IF i = Len(wlog) THEN wst[WorkerThread] = "get"
                ELSE wlog[i + 1].kind = "GetTask"
          /\ wlog[i].kind = "FinishTask" =>
                IF i = Len(wlog) THEN wst[WorkerThread] = "get"
                ELSE wlog[i + 1].kind \in {"GetTask", "FinishErr"}

\* finish() failed, the worker called get() again and got Terminate
C22_Witness ==
    /\ LogKinds = <<"GetTask", "ProcessTask", "FinishTask", "FinishErr",
                    "GetTask", "Terminate">>
    /\ wst[WorkerThread] = "exited"

\* C23: from the first GetVm of a task on, the thread's label is the public
\* label tainted with the request's secrecy and its privilege is the gate's,
\* whatever the previous task left.
C23_ContextSetBeforeGetVm ==
    (wst[WorkerThread] = "handling" /\ hpc # "entry") =>
       /\ hlabel = Buckle(hsec, TRUE)
       /\ hpriv = hgate

\* a secret task of alice was followed by a public task of bob, which waits
\* for its VM under the public label and bob's privilege
C23_Witness ==
    /\ Len(wlog) = 5
    /\ wlog[2] = Entry("ProcessTask", 1, "secret", "alice")
    /\ wlog[5] = Entry("ProcessTask", 2, "public", "bob")
    /\ hpc = "recv"
    /\ hlabel = Buckle("public", TRUE)
    /\ hpriv = "bob"

====
